---- MODULE Spec2Model ----
(***************************************************************************)
(* Model of the consumable-stock ledger ("almoxarifado") of the inventory  *)
(* application: the almox_items and almox_movements tables (app/models.py) *)
(* and the four POST handlers of app/routes.py that write them.  The       *)
(* database is the SQLite file configured in app/__init__.py.              *)
(***************************************************************************)
EXTENDS Integers, Sequences, FiniteSets, TLC

\* ---------------------------------------------------------------- bounds
MaxItems == 2        \* largest almox_items.id the model allocates
MaxMovs  == 3        \* largest almox_movements.id the model allocates
MaxQty   == 2        \* largest stored AlmoxItem.qty
NWorkers == 2        \* threads serving requests at the same time
MaxClock == 2        \* latest reading of the clock
MaxSectors == 2      \* largest sectors.id the model allocates
MaxEquipments == 2   \* largest equipments.id the model allocates

VARIABLES
    items,       \* almox_items:     id -> [name, qty]            (committed rows)
    movements,   \* almox_movements: id -> [type, qty, local, motivo, item_id]
    request,     \* the form of the request handled last, NoRequest once its
                 \* redirect has been followed
    flashed,     \* the message that request flashed
    sessions,    \* per worker thread: the movimento request it is handling
    session,     \* the client's Flask session: [user_logged]
    response,    \* the answer to the request served last
    clock,       \* datetime.utcnow(), as a count of ticks
    stamps,      \* almox_movements.created_at: movement id -> clock reading
    listed,      \* the movement rows the page rendered last shows
    sectors,     \* sectors:    id -> [name, location_id]
    equipments,  \* equipments: id -> [name, value, barcode_pat, invoice_file,
                 \*                    location_id, sector_id]
    files        \* the files in NF_UPLOAD_FOLDER

inventory == <<sectors, equipments, files>>

vars == <<items, movements, request, flashed, sessions, session, response,
          clock, stamps, listed, sectors, equipments, files>>

\* ------------------------------------------------------------ form values
None == "<None>"

\* str.strip() on the form values the model submits
strip(s) ==
    CASE s = " "     -> ""
      [] s = " a"    -> "a"
      [] s = " uso " -> "uso"
      [] s = " m "   -> "m"
      [] s = " admin " -> "admin"
      [] s = " p2 "  -> "p2"
      [] OTHER       -> s

\* str.upper() on the movement types the model submits
upper(s) ==
    CASE s = "uso"  -> "USO"
      [] s = "dano" -> "DANO"
      [] OTHER      -> s

\* Python str.lower(): Unicode aware
PyLower(s) ==
    CASE s = "A" -> "a"
      [] s = "É" -> "é"
      [] s = "Setor A" -> "setor a"
      [] s = "B" -> "b"
      [] OTHER   -> s

\* SQLite lower(): converts ASCII letters only
SqlLower(s) ==
    CASE s = "A" -> "a"
      [] OTHER   -> s

\* Python int(): the decimal strings it accepts, and their values
IntLiterals == {"-1", "0", "1", "2"}

int(s) ==
    CASE s = "-1" -> -1
      [] s = "0"  -> 0
      [] s = "1"  -> 1
      [] s = "2"  -> 2
      [] s = "3"  -> 3

IsInt(s) == s \in IntLiterals \cup {"3"}

VALID_ALMOX_TYPES == {"ENTRADA", "SAIDA", "PERDA", "DANIFICADO"}

\* ------------------------------------------------------------- the store
Max(S) == CHOOSE x \in S : \A y \in S : y <= x

\* INTEGER PRIMARY KEY without AUTOINCREMENT: the next rowid is max + 1
NextId(table) == IF DOMAIN table = {} THEN 1 ELSE Max(DOMAIN table) + 1

\* mutant: the new row replaces the row with the largest rowid
InsertOverLast(table, row) ==
    IF DOMAIN table = {} THEN [k \in {1} |-> row]
    ELSE [table EXCEPT ![Max(DOMAIN table)] = row]

Insert(table, row) == [k \in DOMAIN table \cup {NextId(table)} |->
                          IF k \in DOMAIN table THEN table[k] ELSE row]

Remove(table, ids) == [k \in DOMAIN table \ ids |-> table[k]]

AlmoxMovement(type, qty, local, motivo, item_id) ==
    [type |-> type, qty |-> qty, local |-> local, motivo |-> motivo,
     item_id |-> item_id]

AlmoxItem(name, qty) == [name |-> name, qty |-> qty]

\* unique=True on almox_items.name: SQLite compares with the BINARY collation
NameTaken(its, name, except) ==
    \E j \in DOMAIN its \ except : its[j].name = name

Flash(category, msg, n, name) ==
    [category |-> category, msg |-> msg, n |-> n, name |-> name]

Db(its, movs) == [items |-> its, movements |-> movs]

\* mutant: what the session holds at a return without commit is written too
EndRequestAutocommit(committed, pending, how) ==
    IF how = "rollback" THEN committed ELSE pending

\* The end of a request.  "commit" makes the session's pending rows the
\* committed ones; "rollback", and a return without commit (the scoped
\* session is removed when the request ends), discard them.
EndRequest(committed, pending, how) ==
    IF how = "commit" THEN pending ELSE committed

Result(committed, pending, how, flash) ==
    [db |-> EndRequest(committed, pending, how), flash |-> flash]

\* ------------------------------------------------------------- the forms
Form(op, item_id, name, type, qty, add_qty, sub_qty, local, motivo) ==
    [op |-> op, item_id |-> item_id, name |-> name, type |-> type,
     qty |-> qty, add_qty |-> add_qty, sub_qty |-> sub_qty,
     local |-> local, motivo |-> motivo]

NameInputs   == {"", " a", "A", "É"}
QtyInputs    == {"x", "-1", "0", "1", "2"}
IdInputs     == {"x", "1", "2", "3"}
TypeInputs   == {"", "ENTRADA", "SAIDA", "PERDA", "DANIFICADO", " uso ", "dano", "BRINDE"}
LocalInputs  == {"", "sala"}
MotivoInputs == {"", " ", "m"}

\* the forms submitted to /almoxarifado/add
AddForms ==
    {Form("almoxarifado_add_item", "", name, "", qty, "", "", "", "") :
        name \in NameInputs, qty \in QtyInputs}

\* the forms submitted to /almoxarifado/movimento: every item, type and
\* quantity with a reason; every type and reason, and a place, on item 1;
\* and the ill-formed item ids and quantities
MovForms ==
    {Form("almoxarifado_movimento", item_id, "", type, qty, "", "", "", "m") :
        item_id \in IdInputs \ {"x"}, type \in VALID_ALMOX_TYPES, qty \in {"1", "2"}}
    \cup
    {Form("almoxarifado_movimento", "1", "", type, "1", "", "", "", motivo) :
        type \in TypeInputs, motivo \in MotivoInputs}
    \cup
    {Form("almoxarifado_movimento", "1", "", type, "1", "", "", "sala", "m") :
        type \in {"ENTRADA", "SAIDA"}}
    \cup
    {Form("almoxarifado_movimento", item_id, "", type, qty, "", "", "", "m") :
        item_id \in {"x", "1"}, type \in {"ENTRADA", "SAIDA"}, qty \in QtyInputs}

\* the forms submitted to /almoxarifado/item/update: every item, name and
\* pair of quantities without a reason; the reasons and the empty quantities
\* on item 1; and the ill-formed item ids, names and quantities
UpdateForms ==
    {Form("almoxarifado_item_update", item_id, name, "", "", add_qty, sub_qty, "", "") :
        item_id \in IdInputs \ {"x"}, name \in NameInputs \ {""},
        add_qty \in {"0", "1", "2"}, sub_qty \in {"0", "1", "2"}}
    \cup
    {Form("almoxarifado_item_update", "1", " a", "", "", add_qty, sub_qty, "", motivo) :
        add_qty \in {"", "1"}, sub_qty \in {"", "1"}, motivo \in MotivoInputs}
    \cup
    {Form("almoxarifado_item_update", item_id, name, "", "", add_qty, sub_qty, "", "") :
        item_id \in {"x", "1"}, name \in {"", "A"},
        add_qty \in {"x", "-1", "1"}, sub_qty \in {"x", "-1", "1"}}

\* the forms submitted to /almoxarifado/item/delete
DeleteForms ==
    {Form("almoxarifado_item_delete", item_id, "", "", "", "", "", "", "") : item_id \in IdInputs}

\* -------------------------------------------------- almoxarifado_add_item
\* mutant: the check lets a zero quantity through
QtyRejectedNegativeOnly(qty) == qty < 0

\* "if qty <= 0", the check the add and movimento handlers make
QtyRejected(qty) == qty <= 0

\* mutant: the lookup compares the names as they are
AddItemMatchesExact(its, name) ==
    {i \in DOMAIN its : its[i].name = name}

\* `existing` is the row .first() returned, or 0 when the query matched none
AddItemMatches(its, name) ==
    {i \in DOMAIN its : SqlLower(its[i].name) = PyLower(name)}

almoxarifado_add_item(db, form, existing) ==
    LET name    == strip(form.name)
        qty_raw == strip(form.qty)
        qty     == int(qty_raw)
        its     == db.items
        movs    == db.movements
    IN
    IF name = "" THEN
        Result(db, db, "return", Flash("error", "Informe o nome do item.", 0, ""))
    ELSE IF ~IsInt(qty_raw) THEN
        Result(db, db, "return", Flash("error", "Quantidade inválida.", 0, ""))
    ELSE IF QtyRejected(qty) THEN
        Result(db, db, "return", Flash("error", "Quantidade deve ser maior que zero.", 0, ""))
    ELSE IF existing # 0 THEN
        LET its1  == [its EXCEPT ![existing].qty = @ + qty]
            movs1 == Insert(movs, AlmoxMovement("ENTRADA", qty, None,
                                                "Entrada de estoque", existing))
        IN Result(db, Db(its1, movs1), "commit",
                  Flash("success", "Entrada registrada", qty, its[existing].name))
    ELSE IF NameTaken(its, name, {}) THEN
        \* flush() of the INSERT raises IntegrityError
        Result(db, db, "rollback",
               Flash("error", "Já existe um item com esse nome.", 0, ""))
    ELSE
        LET id    == NextId(its)
            its1  == Insert(its, AlmoxItem(name, qty))
            movs1 == Insert(movs, AlmoxMovement("ENTRADA", qty, None,
                                                "Cadastro inicial", id))
        IN Result(db, Db(its1, movs1), "commit",
                  Flash("success", "Item cadastrado", qty, name))

\* ------------------------------------------------- almoxarifado_movimento
\* mutant: only SAIDA is checked against the stock
InsufficientSaidaOnly(type_, qty, current) == type_ = "SAIDA" /\ qty > current

\* the sufficiency check of a debit against the quantity the session loaded
Insufficient(type_, qty, current) == type_ # "ENTRADA" /\ qty > current

\* mutant: a debit is added instead of subtracted
NewQtySignSlip(type_, current, qty) == current + qty

\* the quantity the handler assigns to item.qty
NewQty(type_, current, qty) ==
    IF type_ = "ENTRADA" THEN current + qty ELSE current - qty

\* mutant: the reason is required of SAIDA only
MotivoMissingSaidaOnly(type_, motivo) == type_ = "SAIDA" /\ motivo = ""

\* "if type_ in {SAIDA, PERDA, DANIFICADO} and not motivo", motivo stripped
MotivoMissing(type_, motivo) ==
    type_ \in {"SAIDA", "PERDA", "DANIFICADO"} /\ motivo = ""

\* mutant: the legacy aliases are not mapped to their canonical types
MovTypeKeepAlias(form) ==
    upper(strip(IF form.type = "" THEN "SAIDA" ELSE form.type))

\* type_ = (request.form.get("type") or "SAIDA").strip().upper(), aliases mapped
MovType(form) ==
    LET t0 == upper(strip(IF form.type = "" THEN "SAIDA" ELSE form.type))
    IN  IF t0 = "USO" THEN "SAIDA"
        ELSE IF t0 = "DANO" THEN "DANIFICADO"
        ELSE t0

\* the checks made before the item is loaded; "" when the form passes them
MovValidate(form) ==
    LET type_       == MovType(form)
        item_id_raw == strip(form.item_id)
        qty_raw     == strip(form.qty)
        motivo      == strip(form.motivo)
    IN
    IF type_ \notin VALID_ALMOX_TYPES THEN "Tipo de movimentação inválido."
    ELSE IF ~IsInt(item_id_raw) THEN "Item inválido."
    ELSE IF ~IsInt(qty_raw) THEN "Quantidade inválida."
    ELSE IF QtyRejected(int(qty_raw)) THEN "Quantidade deve ser maior que zero."
    ELSE IF MotivoMissing(type_, motivo)
        THEN "Informe o motivo (obrigatório para saída/perda/danificado)."
    ELSE ""

\* mutant: the quantity is written, the movement is not
MovWriteQtyOnly(db, item_id, new_qty, row) ==
    Db([db.items EXCEPT ![item_id].qty = new_qty], db.movements)

\* what the session holds at commit(): the item's new quantity and the new
\* movement, written in one transaction
MovWrite(db, item_id, new_qty, row) ==
    Db([db.items EXCEPT ![item_id].qty = new_qty], Insert(db.movements, row))

\* the try block, run on the item as the session loaded it (quantity `current`)
MovApply(db, form, current) ==
    LET type_   == MovType(form)
        item_id == int(strip(form.item_id))
        qty     == int(strip(form.qty))
        local   == IF strip(form.local) = "" THEN None ELSE strip(form.local)
        motivo  == strip(form.motivo)
        stored  == IF motivo # "" THEN motivo
                   ELSE IF type_ = "ENTRADA" THEN "Entrada de estoque" ELSE None
        new_qty == NewQty(type_, current, qty)
    IN
    IF Insufficient(type_, qty, current) THEN
        Result(db, db, "return",
               Flash("error", "Estoque insuficiente. Disponível:", current, ""))
    ELSE IF item_id \notin DOMAIN db.items THEN
        \* the UPDATE matches no row: StaleDataError, caught by except Exception
        Result(db, db, "rollback",
               Flash("error", "Erro ao registrar movimentação. Tente novamente.", 0, ""))
    ELSE
        Result(db,
               MovWrite(db, item_id, new_qty,
                        AlmoxMovement(type_, qty, local, stored, item_id)),
               "commit",
               Flash("success", "Movimentação registrada com sucesso.", 0, ""))

almoxarifado_movimento(db, form) ==
    LET invalid == MovValidate(form) IN
    IF invalid # "" THEN
        Result(db, db, "return", Flash("error", invalid, 0, ""))
    ELSE IF int(strip(form.item_id)) \notin DOMAIN db.items THEN
        Result(db, db, "return", Flash("error", "Item não encontrado.", 0, ""))
    ELSE
        MovApply(db, form, db.items[int(strip(form.item_id))].qty)

\* ---------------------------------------------- almoxarifado_item_update
\* mutant: "elif sub_qty > 0", so a call with both quantities records one movement
AdjustMovementsElif(movs, item_id, add_qty, sub_qty, motivo) ==
    IF add_qty > 0
    THEN Insert(movs, AlmoxMovement("ENTRADA", add_qty, None,
                          IF motivo # None THEN motivo ELSE "Ajuste (entrada)",
                          item_id))
    ELSE IF sub_qty > 0
    THEN Insert(movs, AlmoxMovement("PERDA", sub_qty, None,
                          IF motivo # None THEN motivo ELSE "Ajuste (baixa)",
                          item_id))
    ELSE movs

\* the movements the update adds to the session: "if add_qty > 0", "if sub_qty > 0"
AdjustMovements(movs, item_id, add_qty, sub_qty, motivo) ==
    LET movs1 == IF add_qty > 0
                 THEN Insert(movs,
                             AlmoxMovement("ENTRADA", add_qty, None,
                                 IF motivo # None THEN motivo ELSE "Ajuste (entrada)",
                                 item_id))
                 ELSE movs
    IN  IF sub_qty > 0
        THEN Insert(movs1,
                    AlmoxMovement("PERDA", sub_qty, None,
                        IF motivo # None THEN motivo ELSE "Ajuste (baixa)",
                        item_id))
        ELSE movs1

almoxarifado_item_update(db, form) ==
    LET item_id_raw == strip(form.item_id)
        name        == strip(form.name)
        add_qty_raw == strip(IF form.add_qty = "" THEN "0" ELSE form.add_qty)
        sub_qty_raw == strip(IF form.sub_qty = "" THEN "0" ELSE form.sub_qty)
        motivo      == IF strip(form.motivo) = "" THEN None ELSE strip(form.motivo)
        item_id     == int(item_id_raw)
        add_qty     == int(add_qty_raw)
        sub_qty     == int(sub_qty_raw)
    IN
    IF ~IsInt(item_id_raw) THEN
        Result(db, db, "return", Flash("error", "Item inválido.", 0, ""))
    ELSE IF item_id \notin DOMAIN db.items THEN
        Result(db, db, "return", Flash("error", "Item não encontrado.", 0, ""))
    ELSE IF name = "" THEN
        Result(db, db, "return", Flash("error", "Nome não pode ficar vazio.", 0, ""))
    ELSE IF ~IsInt(add_qty_raw) \/ ~IsInt(sub_qty_raw) THEN
        Result(db, db, "return", Flash("error", "Quantidade inválida.", 0, ""))
    ELSE IF add_qty < 0 \/ sub_qty < 0 THEN
        Result(db, db, "return", Flash("error", "Quantidades devem ser 0 ou maiores.", 0, ""))
    ELSE
        LET renamed == [db.items EXCEPT ![item_id].name = name]
            current == db.items[item_id].qty
            new_qty == current + add_qty - sub_qty
            movs2   == AdjustMovements(db.movements, item_id, add_qty, sub_qty, motivo)
        IN
        IF new_qty < 0 THEN
            \* returns with item.name assigned in the session and not committed
            Result(db, Db(renamed, db.movements), "return",
                   Flash("error", "Não é possível subtrair mais que o estoque atual", current, ""))
        ELSE IF NameTaken(db.items, name, {item_id}) THEN
            \* commit() raises IntegrityError on the UPDATE of the name
            Result(db, Db([renamed EXCEPT ![item_id].qty = new_qty], movs2), "rollback",
                   Flash("error", "Já existe um item com esse nome.", 0, ""))
        ELSE
            Result(db, Db([renamed EXCEPT ![item_id].qty = new_qty], movs2), "commit",
                   Flash("success", "Item atualizado.", 0, ""))

\* ---------------------------------------------- almoxarifado_item_delete
\* mutant: the relationship has no delete cascade
DeleteWithoutCascade(db, item_id) ==
    Db(Remove(db.items, {item_id}), db.movements)

\* cascade="all, delete-orphan": the item's movements are deleted with it
CascadeDelete(db, item_id) ==
    Db(Remove(db.items, {item_id}),
       Remove(db.movements,
              {m \in DOMAIN db.movements : db.movements[m].item_id = item_id}))

almoxarifado_item_delete(db, form) ==
    LET item_id_raw == strip(form.item_id)
        item_id     == int(item_id_raw)
    IN
    IF ~IsInt(item_id_raw) THEN
        Result(db, db, "return", Flash("error", "Item inválido.", 0, ""))
    ELSE IF item_id \notin DOMAIN db.items THEN
        Result(db, db, "return", Flash("error", "Item não encontrado.", 0, ""))
    ELSE
        Result(db, CascadeDelete(db, item_id), "commit",
               Flash("success", "Item excluído com sucesso.", 0, ""))

\* -------------------------------------------------------------- sessions
\* login_post: the credentials the handler accepts
USER_OK == "admin"
PASS_OK == "1234"

\* the (username, password) pairs submitted to POST /login
Credentials ==
    {<<"admin", "1234">>, <<" admin ", "1234">>, <<"admin", "x">>,
     <<"x", "1234">>, <<"", "">>}

LoggedOut == [user_logged |-> FALSE]
LoggedIn  == [user_logged |-> TRUE]

\* an answer: the endpoint (blueprint and name) that was requested, its
\* arguments, and either a redirect to an endpoint or a rendered body
Response(bp, endpoint, args, kind, to) ==
    [bp |-> bp, endpoint |-> endpoint, args |-> args, kind |-> kind, to |-> to]

NoResponse == Response("", "", <<>>, "", "")

Redirect(bp, endpoint, args, to) == Response(bp, endpoint, args, "redirect", to)

\* app.before_request: None lets the request through, anything else is the
\* endpoint the request is redirected to
_protect_pages(bp, sess) ==
    IF bp = "static" THEN None
    ELSE IF bp = "auth" THEN None
    ELSE IF ~sess.user_logged THEN "auth.login"
    ELSE None

\* the decorators of app/routes.py, as _protect_pages
login_required(sess) == IF ~sess.user_logged THEN "auth.login" ELSE None

login_optional(sess) == None

\* mutant: neither the hook nor the decorator looks at the session
GateOpen(sess) == None

\* where a request to a login_required view of blueprint "main" is sent
\* before the view runs; None when the view runs
Gate(sess) ==
    IF _protect_pages("main", sess) # None THEN _protect_pages("main", sess)
    ELSE login_required(sess)

\* the same for a login_optional view
GateOptional(sess) ==
    IF _protect_pages("main", sess) # None THEN _protect_pages("main", sess)
    ELSE login_optional(sess)

\* the login_required views of the stock ledger
LedgerEndpoints ==
    {"almoxarifado", "almoxarifado_add_item", "almoxarifado_movimento",
     "almoxarifado_item_update", "almoxarifado_item_delete"}

\* ------------------------------------------------- the movement listing
LIST_LIMIT == 200

\* mutant: rows of the same created_at come in ascending id
NewerTieAscending(a, b) ==
    \/ a.created_at > b.created_at
    \/ a.created_at = b.created_at /\ a.id < b.id

\* order_by(AlmoxMovement.created_at.desc(), AlmoxMovement.id.desc()):
\* row a comes before row b
Newer(a, b) ==
    \/ a.created_at > b.created_at
    \/ a.created_at = b.created_at /\ a.id > b.id

\* the labelled columns of one row of the query
MovementRow(its, movs, created, m) ==
    [id |-> m, created_at |-> created[m], type |-> movs[m].type,
     qty |-> movs[m].qty, local |-> movs[m].local, motivo |-> movs[m].motivo,
     item_id |-> movs[m].item_id, item_name |-> its[movs[m].item_id].name]

RECURSIVE Ordered(_)
\* the rows in the order of the ORDER BY
Ordered(rows) ==
    IF rows = {} THEN <<>>
    ELSE LET first == CHOOSE a \in rows : \A b \in rows \ {a} : Newer(a, b)
         IN  <<first>> \o Ordered(rows \ {first})

\* the query of the almoxarifado view: movements joined with their items,
\* ordered, at most limit rows
MovementsQuery(its, movs, created, limit) ==
    LET joined == {MovementRow(its, movs, created, m) :
                      m \in {k \in DOMAIN movs : movs[k].item_id \in DOMAIN its}}
        sorted == Ordered(joined)
    IN  SubSeq(sorted, 1, IF Len(sorted) < limit THEN Len(sorted) ELSE limit)

\* created_at of the rows of movs2: the rows already stored keep theirs, a
\* new row takes the reading at its INSERT (now for the first row a request
\* inserts, later for a second one)
StampedAt(movs2, now, later) ==
    [m \in DOMAIN movs2 |->
        IF m \in DOMAIN movements THEN stamps[m]
        ELSE IF m = NextId(movements) THEN now
        ELSE later]

Stamped(movs2, now) == StampedAt(movs2, now, now)

\* ------------------------------------------------------------ the actions
\* the model explores the stores that fit the bounds
WithinBounds(db) ==
    /\ DOMAIN db.items \subseteq 1..MaxItems
    /\ DOMAIN db.movements \subseteq 1..MaxMovs
    /\ \A i \in DOMAIN db.items : db.items[i].qty <= MaxQty

NoFlash == Flash("", "", 0, "")

NoRequest == Form("", "", "", "", "", "", "", "", "")

Idle == [pc |-> "idle", form |-> NoRequest, current |-> 0]

\* A POST is submitted from the rendered page (AtPage); its handler answers
\* with a redirect to that page.
AtPage ==
    /\ request = NoRequest
    /\ response = Response("main", "almoxarifado", <<>>, "render", "almoxarifado.html")

\* the client has followed the redirects: no ledger redirect is pending and
\* the answer last received is not a redirect
Settled == request = NoRequest /\ response.kind # "redirect"

Respond(form, r) ==
    /\ WithinBounds(r.db)
    /\ items' = r.db.items
    /\ movements' = r.db.movements
    /\ request' = form
    /\ flashed' = r.flash
    /\ response' = Redirect("main", form.op, <<>>, "main.almoxarifado")
    /\ stamps' = Stamped(r.db.movements, clock)
    /\ listed' = <<>>
    /\ UNCHANGED <<inventory, sessions, session, clock>>

CurrentDb == Db(items, movements)

\* the rows .first() may return for a name: any matching one, 0 for none
FirstMatch(its, name) ==
    IF AddItemMatches(its, name) = {} THEN {0} ELSE AddItemMatches(its, name)

AddItem ==
    /\ Gate(session) = None
    /\ AtPage
    /\ \E form \in AddForms :
        \E existing \in FirstMatch(items, strip(form.name)) :
            Respond(form, almoxarifado_add_item(CurrentDb, form, existing))

Movimento ==
    /\ Gate(session) = None
    /\ AtPage
    /\ \E form \in MovForms :
        Respond(form, almoxarifado_movimento(CurrentDb, form))

ItemUpdate ==
    /\ Gate(session) = None
    /\ AtPage
    /\ \E form \in UpdateForms :
        Respond(form, almoxarifado_item_update(CurrentDb, form))

ItemDelete ==
    /\ Gate(session) = None
    /\ AtPage
    /\ \E form \in DeleteForms :
        Respond(form, almoxarifado_item_delete(CurrentDb, form))

\* GET /almoxarifado, the target of every redirect: renders the page, which
\* shows and so consumes the flashed message
Almoxarifado ==
    /\ Gate(session) = None
    /\ ~AtPage
    /\ request' = NoRequest
    /\ flashed' = NoFlash
    /\ response' = Response("main", "almoxarifado", <<>>, "render", "almoxarifado.html")
    /\ listed' = MovementsQuery(items, movements, stamps, LIST_LIMIT)
    /\ UNCHANGED <<inventory, items, movements, sessions, session, clock, stamps>>

\* a request to a ledger view by a client that is not logged in: the view
\* does not run, the client is sent to the login form
LedgerRefused ==
    /\ Settled
    /\ Gate(session) # None
    /\ \E endpoint \in LedgerEndpoints :
          response' = Redirect("main", endpoint, <<>>, Gate(session))
    /\ UNCHANGED <<inventory, items, movements, request, flashed, sessions, session,
                   clock, stamps, listed>>

\* GET /login, reached by a redirect
Login ==
    /\ response.kind = "redirect"
    /\ response.to = "auth.login"
    /\ IF session.user_logged
       THEN /\ response' = Redirect("auth", "login", <<>>, "main.index")
            /\ UNCHANGED flashed
       ELSE /\ response' = Response("auth", "login", <<>>, "render", "auth/login.html")
            /\ flashed' = NoFlash
    /\ UNCHANGED <<inventory, items, movements, request, sessions, session,
                   clock, stamps, listed>>

\* POST /login
login_post(sess, username, password) ==
    IF strip(username) = USER_OK /\ strip(password) = PASS_OK
    THEN [session |-> [sess EXCEPT !.user_logged = TRUE],
          flash |-> Flash("success", "Bem-vindo!", 0, ""),
          to |-> "main.index"]
    ELSE [session |-> sess,
          flash |-> Flash("error", "Usuário ou senha inválidos.", 0, ""),
          to |-> "auth.login"]

LoginPost ==
    /\ Settled
    /\ \E c \in Credentials :
          LET r == login_post(session, c[1], c[2]) IN
          /\ session' = r.session
          /\ flashed' = r.flash
          /\ response' = Redirect("auth", "login_post", c, r.to)
    /\ UNCHANGED <<inventory, items, movements, request, sessions, clock, stamps, listed>>

\* GET /logout: session.clear(), which also drops the flashed messages
Logout ==
    /\ Settled
    /\ session' = LoggedOut
    /\ flashed' = NoFlash
    /\ response' = Redirect("auth", "logout", <<>>, "auth.login")
    /\ UNCHANGED <<inventory, items, movements, request, sessions, clock, stamps, listed>>

\* GET /, reached by a redirect: the dashboard, which shows the flashed message
Index ==
    /\ response.kind = "redirect"
    /\ response.to = "main.index"
    /\ IF Gate(session) # None
       THEN /\ response' = Redirect("main", "index", <<>>, Gate(session))
            /\ UNCHANGED flashed
       ELSE /\ response' = Response("main", "index", <<>>, "render", "index.html")
            /\ flashed' = NoFlash
    /\ UNCHANGED <<inventory, items, movements, request, sessions, session,
                   clock, stamps, listed>>

Init ==
    /\ items = <<>>
    /\ movements = <<>>
    /\ request = NoRequest
    /\ flashed = NoFlash
    /\ sessions = [w \in 1..NWorkers |-> Idle]
    /\ session = LoggedOut
    /\ response = NoResponse
    /\ clock = 0
    /\ stamps = <<>>
    /\ listed = <<>>
    /\ sectors = <<>>
    /\ equipments = <<>>
    /\ files = {}

Next ==
    \/ AddItem \/ Movimento \/ ItemUpdate \/ ItemDelete \/ Almoxarifado
    \/ LedgerRefused \/ Login \/ LoginPost \/ Logout \/ Index

Spec == Init /\ [][Next]_vars

\* ------------------------------------------------- concurrent requests
\* Requests served by different threads have a session each.  A movimento
\* request SELECTs the item (MovLoad) and writes at commit() (MovCommit):
\* UPDATE almox_items SET qty = <the value the handler computed> and the
\* INSERT of the movement, one SQLite write transaction.  No lock is held
\* between the SELECT and the commit.
ConcForms ==
    {Form("almoxarifado_movimento", "1", "", type, qty, "", "", "", "m") :
        type \in {"ENTRADA", "SAIDA", "PERDA", "DANIFICADO"}, qty \in {"1", "2"}}
    \cup
    {Form("almoxarifado_movimento", item_id, "", "SAIDA", qty, "", "", "", "") :
        item_id \in {"1", "2"}, qty \in {"0", "1"}}

MovLoad(w) ==
    \E form \in ConcForms :
        LET invalid == MovValidate(form)
            item_id == int(strip(form.item_id))
        IN
        /\ Gate(session) = None
        /\ AtPage
        /\ sessions[w].pc = "idle"
        /\ IF invalid # "" \/ item_id \notin DOMAIN items
           THEN /\ flashed' = Flash("error",
                                    IF invalid # "" THEN invalid ELSE "Item não encontrado.",
                                    0, "")
                /\ request' = form
                /\ response' = Redirect("main", form.op, <<>>, "main.almoxarifado")
                /\ UNCHANGED sessions
           ELSE /\ sessions' = [sessions EXCEPT ![w] =
                                   [pc |-> "loaded", form |-> form,
                                    current |-> items[item_id].qty]]
                /\ UNCHANGED <<request, flashed, response>>
        /\ UNCHANGED <<inventory, items, movements, session, clock, stamps, listed>>

MovCommit(w) ==
    /\ sessions[w].pc = "loaded"
    /\ LET r == MovApply(CurrentDb, sessions[w].form, sessions[w].current) IN
        /\ WithinBounds(r.db)
        /\ items' = r.db.items
        /\ movements' = r.db.movements
        /\ request' = sessions[w].form
        /\ flashed' = r.flash
        /\ response' = Redirect("main", sessions[w].form.op, <<>>, "main.almoxarifado")
        /\ stamps' = Stamped(r.db.movements, clock)
    /\ sessions' = [sessions EXCEPT ![w] = Idle]
    /\ UNCHANGED <<inventory, session, clock, listed>>

\* the items the threads' movements are made on
ConcAddForms ==
    {Form("almoxarifado_add_item", "", name, "", qty, "", "", "", "") :
        name \in {" a", "A"}, qty \in {"1", "2"}}

ConcAddItem ==
    /\ \A w \in 1..NWorkers : sessions[w].pc = "idle"
    /\ Gate(session) = None
    /\ AtPage
    /\ \E form \in ConcAddForms :
        \E existing \in FirstMatch(items, strip(form.name)) :
            Respond(form, almoxarifado_add_item(CurrentDb, form, existing))

ConcItemDelete ==
    /\ \A w \in 1..NWorkers : sessions[w].pc = "idle"
    /\ ItemDelete

\* the client logs in before its threads' requests start
ConcLoginPost ==
    /\ \A w \in 1..NWorkers : sessions[w].pc = "idle"
    /\ LoginPost

NextConc ==
    \/ ConcLoginPost
    \/ ConcAddItem
    \/ ConcItemDelete
    \/ Almoxarifado
    \/ \E w \in 1..NWorkers : MovLoad(w)
    \/ \E w \in 1..NWorkers : MovCommit(w)

SpecConc == Init /\ [][NextConc]_vars

\* ---------------------------------------------------------------- sectors
\* str.isdigit() on the ids the forms carry
isdigit(s) == s \in {"0", "1", "2", "3"}

Sector(name, location_id) == [name |-> name, location_id |-> location_id]

SectorForm(name, location_id) == [name |-> name, location_id |-> location_id]

\* the forms submitted to the sector views
SectorForms ==
    {SectorForm(name, location_id) :
        name \in {"", "Setor A", "setor a", "B"}, location_id \in {"x", "1", "2"}}

\* uq_sector_location_name: UNIQUE (location_id, name), compared byte for
\* byte; ix_sector_location_lower_name is a plain index and rejects nothing
SectorTaken(secs, name, location_id, except) ==
    \E j \in DOMAIN secs \ except :
        secs[j].location_id = location_id /\ secs[j].name = name

\* the equipments of a sector (Sector.equipments)
SectorEquipments(eqs, sector_id) ==
    {e \in DOMAIN eqs : eqs[e].sector_id = sector_id}

\* the outcome of a sector view: the rows committed, the message, the answer
SectorResult(secs, flash, resp) == [sectors |-> secs, flash |-> flash, response |-> resp]

NotFound(endpoint) == Response("main", endpoint, <<>>, "abort", "404")

unified_sector_create(secs, form) ==
    LET name        == strip(form.name)
        location_id == strip(form.location_id)
        to          == Redirect("main", "unified_sector_create", <<>>,
                                "main.locations_sectors")
    IN
    IF ~isdigit(location_id) THEN
        SectorResult(secs,
            Flash("error", "Selecione uma localização válida para cadastrar o setor.", 0, ""),
            to)
    ELSE IF name = "" THEN
        SectorResult(secs, Flash("error", "Nome do setor é obrigatório.", 0, ""), to)
    ELSE IF SectorTaken(secs, name, int(location_id), {}) THEN
        \* commit() raises IntegrityError: rollback
        SectorResult(secs,
            Flash("error", "Já existe um setor com esse nome nessa localização.", 0, ""),
            to)
    ELSE
        SectorResult(Insert(secs, Sector(name, int(location_id))),
            Flash("success", "Setor cadastrado com sucesso.", 0, ""), to)

unified_sector_update(secs, sector_id, form) ==
    LET name        == strip(form.name)
        location_id == strip(form.location_id)
        to          == Redirect("main", "unified_sector_update", <<>>,
                                "main.locations_sectors")
    IN
    IF sector_id \notin DOMAIN secs THEN
        SectorResult(secs, flashed, NotFound("unified_sector_update"))
    ELSE IF ~isdigit(location_id) THEN
        SectorResult(secs, Flash("error", "Selecione uma localização válida.", 0, ""), to)
    ELSE IF name = "" THEN
        SectorResult(secs, Flash("error", "Nome do setor é obrigatório.", 0, ""), to)
    ELSE IF SectorTaken(secs, name, int(location_id), {sector_id}) THEN
        SectorResult(secs,
            Flash("error", "Não foi possível atualizar: setor duplicado nessa localização.", 0, ""),
            to)
    ELSE
        SectorResult([secs EXCEPT ![sector_id] = Sector(name, int(location_id))],
            Flash("success", "Setor atualizado.", 0, ""), to)

unified_sector_delete(secs, eqs, sector_id) ==
    LET to == Redirect("main", "unified_sector_delete", <<>>, "main.locations_sectors")
    IN
    IF sector_id \notin DOMAIN secs THEN
        SectorResult(secs, flashed, NotFound("unified_sector_delete"))
    ELSE IF SectorEquipments(eqs, sector_id) # {} THEN
        SectorResult(secs,
            Flash("error", "Não é possível excluir: existem equipamentos vinculados a este setor.", 0, ""),
            to)
    ELSE
        SectorResult(Remove(secs, {sector_id}),
            Flash("success", "Setor excluído.", 0, ""), to)

\* ------------------------------------------------------------- equipments
ALLOWED_NF_EXT == {"png", "jpg", "jpeg", "webp", "pdf"}

Equipment(name, value, barcode_pat, invoice_file, location_id, sector_id) ==
    [name |-> name, value |-> value, barcode_pat |-> barcode_pat,
     invoice_file |-> invoice_file, location_id |-> location_id,
     sector_id |-> sector_id]

\* request.form and request.files["invoice_image"].filename ("" for no file)
EquipmentForm(name, value, barcode_pat, location_id, sector_id, filename) ==
    [name |-> name, value |-> value, barcode_pat |-> barcode_pat,
     location_id |-> location_id, sector_id |-> sector_id, filename |-> filename]

Filenames == {"", "nota.pdf", "foto.PNG", "nota.exe", ".pdf"}

\* the forms submitted to the equipment views
EquipmentForms ==
    {EquipmentForm("n", "", barcode_pat, "1", "1", filename) :
        barcode_pat \in {"p1", " p2 "}, filename \in Filenames}
    \cup
    {EquipmentForm("", "", "p1", "1", "1", ""),
     EquipmentForm("n", "", "", "1", "1", ""),
     EquipmentForm("n", "", "p1", "x", "1", ""),
     EquipmentForm("n", "", "p1", "1", "x", "nota.pdf"),
     EquipmentForm("n", "abc", "p1", "1", "1", "nota.pdf"),
     EquipmentForm("n", "1.500,00", "p1", "1", "2", "")}

\* Decimal(value_raw.replace(".", "").replace(",", ".")): the values it
\* accepts, as the decimal stored
DecimalOf(value_raw) ==
    CASE value_raw = "1.500,00" -> "1500.00"
      [] OTHER                  -> None

IsDecimal(value_raw) == value_raw \in {"1.500,00"}

\* the part of the filename after its last dot, "" when it has no dot
Suffix(filename) ==
    CASE filename = "nota.pdf" -> "pdf"
      [] filename = "foto.PNG" -> "PNG"
      [] filename = "nota.exe" -> "exe"
      [] filename = ".pdf"     -> "pdf"
      [] OTHER                 -> ""

HasDot(filename) == filename \in {"nota.pdf", "foto.PNG", "nota.exe", ".pdf"}

\* str.lower() on the suffixes
LowerExt(ext) == IF ext = "PNG" THEN "png" ELSE ext

_allowed_nf_file(filename) ==
    HasDot(filename) /\ LowerExt(Suffix(filename)) \in ALLOWED_NF_EXT

\* werkzeug's secure_filename: leading and trailing dots are stripped
secure_filename(filename) == IF filename = ".pdf" THEN "pdf" ELSE filename

\* f"nf_{equipment_id}.{ext}"
NfName(equipment_id, ext) == "nf_" \o ToString(equipment_id) \o "." \o ext

\* _save_nf_file: raises ValueError, or another exception (no dot left in
\* the secured name, or the write fails), or writes the file and returns
\* its name
_save_nf_file(fs, filename, equipment_id, saves) ==
    LET safe == secure_filename(filename)
        name == NfName(equipment_id, LowerExt(Suffix(safe)))
    IN
    IF filename = "" THEN [raised |-> "ValueError", files |-> fs, name |-> None]
    ELSE IF ~_allowed_nf_file(filename)
        THEN [raised |-> "ValueError", files |-> fs, name |-> None]
    ELSE IF ~HasDot(safe) THEN [raised |-> "IndexError", files |-> fs, name |-> None]
    ELSE IF ~saves THEN [raised |-> "OSError", files |-> fs, name |-> None]
    ELSE [raised |-> None, files |-> fs \cup {name}, name |-> name]

\* _delete_nf_file: removes the file if it is there; a failing os.remove is
\* swallowed
_delete_nf_file(fs, filename, removes) ==
    IF filename = None THEN fs
    ELSE IF removes THEN fs \ {filename}
    ELSE fs

BarcodeTaken(eqs, barcode_pat, except) ==
    \E j \in DOMAIN eqs \ except : eqs[j].barcode_pat = barcode_pat

EquipmentResult(eqs, fs, flash, resp) ==
    [equipments |-> eqs, files |-> fs, flash |-> flash, response |-> resp]

EquipmentFormInvalid(form) ==
    \/ strip(form.name) = ""
    \/ strip(form.barcode_pat) = ""
    \/ ~isdigit(strip(form.location_id))
    \/ ~isdigit(strip(form.sector_id))

equipments_create(eqs, fs, form, saves) ==
    LET to    == Redirect("main", "equipments_create", <<>>, "main.equipments_list")
        value_raw == strip(form.value)
        id    == NextId(eqs)
        eq    == Equipment(strip(form.name),
                           IF value_raw = "" THEN None ELSE DecimalOf(value_raw),
                           strip(form.barcode_pat), None,
                           int(strip(form.location_id)), int(strip(form.sector_id)))
        saved == _save_nf_file(fs, form.filename, id, saves)
        done  == Flash("success", "Equipamento cadastrado com sucesso.", 0, "")
    IN
    IF EquipmentFormInvalid(form) THEN
        EquipmentResult(eqs, fs,
            Flash("error", "Preencha: Nome, PAT/Código, Localização e Setor.", 0, ""), to)
    ELSE IF value_raw # "" /\ ~IsDecimal(value_raw) THEN
        EquipmentResult(eqs, fs, Flash("error", "Valor inválido. Ex.: 1500,00", 0, ""), to)
    ELSE IF BarcodeTaken(eqs, eq.barcode_pat, {}) THEN
        EquipmentResult(eqs, fs,
            Flash("error", "Já existe equipamento com esse PAT/Código de barras.", 0, ""), to)
    ELSE IF form.filename = "" THEN
        EquipmentResult(Insert(eqs, eq), fs, done, to)
    ELSE IF saved.raised # None THEN
        \* the row committed first stays, without a file
        EquipmentResult(Insert(eqs, eq), saved.files, done, to)
    ELSE
        EquipmentResult(Insert(eqs, [eq EXCEPT !.invoice_file = saved.name]),
                        saved.files, done, to)

equipments_update(eqs, fs, equipment_id, form, removes, saves) ==
    LET to    == Redirect("main", "equipments_update", <<>>, "main.equipments_list")
        value_raw == strip(form.value)
        old   == eqs[equipment_id].invoice_file
        eq    == Equipment(strip(form.name),
                           IF value_raw = "" THEN None ELSE DecimalOf(value_raw),
                           strip(form.barcode_pat), old,
                           int(strip(form.location_id)), int(strip(form.sector_id)))
        fs1   == _delete_nf_file(fs, old, removes)
        saved == _save_nf_file(fs1, form.filename, equipment_id, saves)
        fs2   == IF form.filename = "" THEN fs ELSE saved.files
        eq2   == IF form.filename = "" THEN eq
                 ELSE [eq EXCEPT !.invoice_file = saved.name]
    IN
    IF equipment_id \notin DOMAIN eqs THEN
        EquipmentResult(eqs, fs, flashed, NotFound("equipments_update"))
    ELSE IF EquipmentFormInvalid(form) THEN
        EquipmentResult(eqs, fs,
            Flash("error", "Preencha: Nome, PAT/Código, Localização e Setor.", 0, ""), to)
    ELSE IF value_raw # "" /\ ~IsDecimal(value_raw) THEN
        EquipmentResult(eqs, fs, Flash("error", "Valor inválido. Ex.: 1500,00", 0, ""), to)
    ELSE IF form.filename # "" /\ saved.raised = "ValueError" THEN
        \* returns without commit: the assignments are dropped with the
        \* session, the old file has been deleted
        EquipmentResult(eqs, fs2,
            Flash("error", "Arquivo de NF inválido (use JPG/PNG/WebP/PDF).", 0, ""), to)
    ELSE IF form.filename # "" /\ saved.raised # None THEN
        EquipmentResult(eqs, fs2,
            Flash("error", "Falha ao salvar a imagem/PDF da NF.", 0, ""), to)
    ELSE IF BarcodeTaken(eqs, eq.barcode_pat, {equipment_id}) THEN
        \* commit() raises IntegrityError: rollback, the files stay as written
        EquipmentResult(eqs, fs2,
            Flash("error", "Já existe equipamento com esse PAT/Código de barras.", 0, ""), to)
    ELSE
        EquipmentResult([eqs EXCEPT ![equipment_id] = eq2], fs2,
            Flash("success", "Equipamento atualizado.", 0, ""), to)

equipments_delete(eqs, fs, equipment_id, removes) ==
    IF equipment_id \notin DOMAIN eqs THEN
        EquipmentResult(eqs, fs, flashed, NotFound("equipments_delete"))
    ELSE
        EquipmentResult(Remove(eqs, {equipment_id}),
            _delete_nf_file(fs, eqs[equipment_id].invoice_file, removes),
            Flash("success", "Equipamento excluído.", 0, ""),
            Redirect("main", "equipments_delete", <<>>, "main.equipments_list"))

\* the scanner lookup: the JSON body it answers with
api_equipment_by_barcode(eqs, code) ==
    IF strip(code) = "" THEN "missing_code"
    ELSE IF \E e \in DOMAIN eqs : eqs[e].barcode_pat = strip(code) THEN "found"
    ELSE "not_found"

\* --------------------------------------------- the inventory requests
\* the login_required views of the sectors and of the equipments
InventoryEndpoints ==
    {"locations_sectors", "unified_sector_create", "unified_sector_update",
     "unified_sector_delete", "equipments_list", "equipments_create",
     "equipments_update", "equipments_delete"}

\* the codes the scanner sends
Codes == {"", "p1", " p2 ", "zz"}

SectorPage ==
    /\ request = NoRequest
    /\ response = Response("main", "locations_sectors", <<>>, "render",
                           "locations_sectors.html")

EquipmentsPage ==
    /\ request = NoRequest
    /\ response = Response("main", "equipments_list", <<>>, "render",
                           "equipments/list.html")

Ledger == <<items, movements, request, sessions, clock, stamps, listed>>

\* GET /cadastro-localizacao, the target of the sector views' redirects
LocationsSectors ==
    /\ Gate(session) = None
    /\ request = NoRequest
    /\ ~SectorPage
    /\ flashed' = NoFlash
    /\ response' = Response("main", "locations_sectors", <<>>, "render",
                            "locations_sectors.html")
    /\ UNCHANGED <<inventory, Ledger, session>>

\* GET /equipments, the target of the equipment views' redirects
EquipmentsList ==
    /\ Gate(session) = None
    /\ request = NoRequest
    /\ ~EquipmentsPage
    /\ flashed' = NoFlash
    /\ response' = Response("main", "equipments_list", <<>>, "render",
                            "equipments/list.html")
    /\ UNCHANGED <<inventory, Ledger, session>>

SectorRespond(r) ==
    /\ DOMAIN r.sectors \subseteq 1..MaxSectors
    /\ sectors' = r.sectors
    /\ flashed' = r.flash
    /\ response' = r.response
    /\ UNCHANGED <<equipments, files, Ledger, session>>

SectorCreate ==
    /\ Gate(session) = None
    /\ SectorPage
    /\ \E form \in SectorForms :
          SectorRespond(unified_sector_create(sectors, form))

SectorUpdate ==
    /\ Gate(session) = None
    /\ SectorPage
    /\ \E sector_id \in 1..(MaxSectors + 1), form \in SectorForms :
          SectorRespond(unified_sector_update(sectors, sector_id, form))

SectorDelete ==
    /\ Gate(session) = None
    /\ SectorPage
    /\ \E sector_id \in 1..(MaxSectors + 1) :
          SectorRespond(unified_sector_delete(sectors, equipments, sector_id))

EquipmentRespond(r) ==
    /\ DOMAIN r.equipments \subseteq 1..MaxEquipments
    /\ equipments' = r.equipments
    /\ files' = r.files
    /\ flashed' = r.flash
    /\ response' = r.response
    /\ UNCHANGED <<sectors, Ledger, session>>

EquipmentsCreate ==
    /\ Gate(session) = None
    /\ EquipmentsPage
    /\ \E form \in EquipmentForms, saves \in BOOLEAN :
          EquipmentRespond(equipments_create(equipments, files, form, saves))

EquipmentsUpdate ==
    /\ Gate(session) = None
    /\ EquipmentsPage
    /\ \E equipment_id \in 1..(MaxEquipments + 1), form \in EquipmentForms,
          removes \in BOOLEAN, saves \in BOOLEAN :
          EquipmentRespond(equipments_update(equipments, files, equipment_id,
                                             form, removes, saves))

EquipmentsDelete ==
    /\ Gate(session) = None
    /\ EquipmentsPage
    /\ \E equipment_id \in 1..(MaxEquipments + 1), removes \in BOOLEAN :
          EquipmentRespond(equipments_delete(equipments, files, equipment_id, removes))

\* GET /api/equipment/by-barcode: the before_request hook runs first, then
\* the decorator, then the view
ApiEquipmentByBarcode ==
    /\ Settled
    /\ \E code \in Codes :
          response' =
              IF GateOptional(session) # None
              THEN Redirect("main", "api_equipment_by_barcode", <<code>>,
                            GateOptional(session))
              ELSE Response("main", "api_equipment_by_barcode", <<code>>, "json",
                            api_equipment_by_barcode(equipments, code))
    /\ UNCHANGED <<inventory, Ledger, flashed, session>>

\* a request to a sector or equipment view by a client that is not logged
\* in: the view does not run
InventoryRefused ==
    /\ Settled
    /\ Gate(session) # None
    /\ \E endpoint \in InventoryEndpoints :
          response' = Redirect("main", endpoint, <<>>, Gate(session))
    /\ UNCHANGED <<inventory, Ledger, flashed, session>>

NextSector ==
    \/ LoginPost \/ Index \/ LocationsSectors \/ SectorCreate \/ SectorUpdate
    \/ SectorDelete \/ EquipmentsList \/ EquipmentsCreate

SpecSector == Init /\ [][NextSector]_vars

NextEquip ==
    \/ LoginPost \/ Login \/ Logout \/ Index \/ EquipmentsList \/ EquipmentsCreate
    \/ EquipmentsUpdate \/ EquipmentsDelete \/ ApiEquipmentByBarcode
    \/ InventoryRefused

SpecEquip == Init /\ [][NextEquip]_vars

\* ------------------------------------------------ requests as time passes
\* The clock advances between requests (Tick) and between the two INSERTs
\* of one request; the requests are the few that fill the movement log.
ListForms ==
    {Form("almoxarifado_add_item", "", name, "", "1", "", "", "", "") :
        name \in {" a", "É"}}
    \cup
    {Form("almoxarifado_movimento", "1", "", "ENTRADA", "1", "", "", "", "m"),
     Form("almoxarifado_item_update", "1", " a", "", "", "1", "1", "", ""),
     Form("almoxarifado_item_update", "2", "É", "", "", "1", "0", "", "")}
    \cup
    {Form("almoxarifado_item_delete", item_id, "", "", "", "", "", "", "") :
        item_id \in {"1", "2"}}

\* the view function of the form's endpoint
Handle(db, form, existing) ==
    CASE form.op = "almoxarifado_add_item" ->
            almoxarifado_add_item(db, form, existing)
      [] form.op = "almoxarifado_movimento" -> almoxarifado_movimento(db, form)
      [] form.op = "almoxarifado_item_update" -> almoxarifado_item_update(db, form)
      [] form.op = "almoxarifado_item_delete" -> almoxarifado_item_delete(db, form)

Tick ==
    /\ clock < MaxClock
    /\ clock' = clock + 1
    /\ UNCHANGED <<inventory, items, movements, request, flashed, sessions, session,
                   response, stamps, listed>>

TimedPost ==
    /\ Gate(session) = None
    /\ AtPage
    /\ \E form \in ListForms :
        \E existing \in FirstMatch(items, strip(form.name)) :
        \E later \in {clock, IF clock < MaxClock THEN clock + 1 ELSE clock} :
            LET r == Handle(CurrentDb, form, existing) IN
            /\ WithinBounds(r.db)
            /\ items' = r.db.items
            /\ movements' = r.db.movements
            /\ request' = form
            /\ flashed' = r.flash
            /\ response' = Redirect("main", form.op, <<>>, "main.almoxarifado")
            /\ stamps' = StampedAt(r.db.movements, clock, later)
            /\ clock' = IF NextId(movements) + 1 \in DOMAIN r.db.movements
                        THEN later ELSE clock
            /\ listed' = <<>>
            /\ UNCHANGED <<inventory, sessions, session>>

NextList == LoginPost \/ Almoxarifado \/ Tick \/ TimedPost

SpecList == Init /\ [][NextList]_vars

\* =============================================================== claims
RECURSIVE SumQty(_, _)
SumQty(movs, ids) ==
    IF ids = {} THEN 0
    ELSE LET m == CHOOSE x \in ids : TRUE
         IN  movs[m].qty + SumQty(movs, ids \ {m})

MovsOf(movs, item_id, types) ==
    {m \in DOMAIN movs : movs[m].item_id = item_id /\ movs[m].type \in types}

DebitTypes == {"SAIDA", "PERDA", "DANIFICADO"}

Credits(movs, item_id) == SumQty(movs, MovsOf(movs, item_id, {"ENTRADA"}))
Debits(movs, item_id)  == SumQty(movs, MovsOf(movs, item_id, DebitTypes))

\* C1 -- ledger invariant: in every state reached by the add, movimento,
\* update and delete handlers, each stock item's stored quantity equals the
\* sum of its ENTRADA movements' quantities minus the sum of its SAIDA, PERDA
\* and DANIFICADO movements' quantities.
C1_LedgerInvariant ==
    \A i \in DOMAIN items :
        items[i].qty = Credits(movements, i) - Debits(movements, i)

\* an item credited twice and debited, by a movimento request
C1_Witness ==
    /\ request.op = "almoxarifado_movimento"
    /\ flashed.category = "success"
    /\ \E i \in DOMAIN items :
          /\ Cardinality(MovsOf(movements, i, {"ENTRADA"})) = 2
          /\ Cardinality(MovsOf(movements, i, DebitTypes)) = 1
          /\ items[i].qty = 1

\* C2 -- under concurrent requests no two debits pass the sufficiency check
\* against the same stale quantity: whatever the interleaving of load and
\* commit of the movimento requests, an item's debits never exceed its
\* credits and no movement's effect on the quantity is lost.
C2_SerializedDebits ==
    \A i \in DOMAIN items :
        /\ Debits(movements, i) <= Credits(movements, i)
        /\ items[i].qty = Credits(movements, i) - Debits(movements, i)

\* C3 -- stock item names are unique ignoring letter case: no state reached
\* by the add, update (rename) and delete handlers holds two distinct items
\* whose names are equal when compared case-insensitively.
C3_NamesUniqueIgnoringCase ==
    \A i, j \in DOMAIN items :
        i # j => PyLower(items[i].name) # PyLower(items[j].name)

\* the fields of a form as the handlers read them
FormItemId(form) == int(strip(form.item_id))
FormQty(form)    == int(strip(form.qty))
FormHasItem(form, its) ==
    IsInt(strip(form.item_id)) /\ FormItemId(form) \in DOMAIN its

\* C4 -- a debit (SAIDA, PERDA or DANIFICADO, with a non-empty reason) whose
\* qty exceeds the item's current quantity always fails with the
\* insufficient-stock error, which reports the quantity before the request,
\* and changes neither any stored quantity nor the movement log.
C4_Overdraw(form, its) ==
    /\ form.op = "almoxarifado_movimento"
    /\ MovType(form) \in DebitTypes
    /\ strip(form.motivo) # ""
    /\ FormHasItem(form, its)
    /\ IsInt(strip(form.qty))
    /\ FormQty(form) > its[FormItemId(form)].qty

C4_DebitOverdrawRejected ==
    [][C4_Overdraw(request', items) =>
          /\ flashed' = Flash("error", "Estoque insuficiente. Disponível:",
                              items[FormItemId(request')].qty, "")
          /\ items' = items
          /\ movements' = movements]_vars

\* a DANIFICADO debit of two units from an item holding one has been refused
C4_Witness ==
    /\ C4_Overdraw(request, items)
    /\ MovType(request) = "DANIFICADO"
    /\ FormQty(request) = 2
    /\ items[FormItemId(request)].qty = 1
    /\ flashed.msg = "Estoque insuficiente. Disponível:"

\* an add form that passes the handler's validation
AddFormValid(form) ==
    /\ form.op = "almoxarifado_add_item"
    /\ strip(form.name) # ""
    /\ IsInt(strip(form.qty))
    /\ FormQty(form) > 0

\* the step deposits qty into item i, with the movement "Entrada de estoque"
Deposited(i, qty) ==
    /\ items' = [items EXCEPT ![i].qty = @ + qty]
    /\ movements' =
           Insert(movements,
                  AlmoxMovement("ENTRADA", qty, None, "Entrada de estoque", i))

\* the step creates the item, with the movement "Cadastro inicial"
Registered(name, qty) ==
    /\ items' = Insert(items, AlmoxItem(name, qty))
    /\ movements' =
           Insert(movements,
                  AlmoxMovement("ENTRADA", qty, None, "Cadastro inicial", NextId(items)))

\* the items whose name equals `name` ignoring letter case
SameIgnoringCase(name) ==
    {i \in DOMAIN items : PyLower(items[i].name) = PyLower(name)}

\* C5 -- registerOrDeposit(name, qty) with a non-empty name and qty > 0: if
\* an item whose name matches case-insensitively exists, its quantity grows
\* by exactly qty, one ENTRADA movement "Entrada de estoque" is appended and
\* no item is created; otherwise one item with that name and quantity is
\* created and one ENTRADA movement "Cadastro inicial" is appended.
C5_RegisterOrDeposit ==
    [][AddFormValid(request') =>
          IF SameIgnoringCase(strip(request'.name)) # {}
          THEN \E i \in SameIgnoringCase(strip(request'.name)) :
                   Deposited(i, FormQty(request'))
          ELSE Registered(strip(request'.name), FormQty(request'))]_vars

\* the items whose name differs from `name` only by letter case
CaseVariants(name) == {i \in SameIgnoringCase(name) : items[i].name # name}

\* C6 (as claimed) -- creating an item whose name differs only by case from
\* an existing item's is reported as a duplicate and leaves the quantities
\* and the movement log unchanged.
C6_CaseDuplicateRejected ==
    [][(AddFormValid(request') /\ CaseVariants(strip(request'.name)) # {}) =>
          /\ flashed'.msg = "Já existe um item com esse nome."
          /\ items' = items
          /\ movements' = movements]_vars

\* C6 (amended) -- a registration whose name differs only by letter case from
\* the name of an existing item that the lookup lower(stored) = name.lower()
\* finds (every such item when the names are ASCII) is not a duplicate: it
\* is a deposit into an item of that name ignoring case, and no item is
\* created.  The duplicate-name error is reported only for a name equal,
\* byte for byte, to a stored name, and then nothing changes.
C6_CaseVariantDeposits ==
    [][AddFormValid(request') =>
          LET name == strip(request'.name) IN
          /\ (\E i \in CaseVariants(name) : SqlLower(items[i].name) = PyLower(name))
                => /\ flashed'.msg = "Entrada registrada"
                   /\ \E i \in SameIgnoringCase(name) :
                          Deposited(i, FormQty(request'))
          /\ flashed'.msg = "Já existe um item com esse nome."
                => /\ \E i \in DOMAIN items : items[i].name = name
                   /\ items' = items
                   /\ movements' = movements]_vars

\* "A" has been registered when the only item was "a": the unit went to "a"
C6_Witness ==
    /\ AddFormValid(request)
    /\ request.name = "A"
    /\ flashed = Flash("success", "Entrada registrada", 1, "a")
    /\ DOMAIN items = {1}
    /\ items[1] = AlmoxItem("a", 2)
    /\ \E m \in DOMAIN movements :
          movements[m] = AlmoxMovement("ENTRADA", 1, None, "Entrada de estoque", 1)

\* what the update form asks for: absent quantities count as 0
FormAddQty(form) == int(strip(IF form.add_qty = "" THEN "0" ELSE form.add_qty))
FormSubQty(form) == int(strip(IF form.sub_qty = "" THEN "0" ELSE form.sub_qty))
FormMotivo(form, default) ==
    IF strip(form.motivo) = "" THEN default ELSE strip(form.motivo)

\* the movements an adjustment of add_qty and sub_qty is to append, in order
ExpectedAdjustments(form) ==
    (IF FormAddQty(form) > 0
     THEN <<AlmoxMovement("ENTRADA", FormAddQty(form), None,
                          FormMotivo(form, "Ajuste (entrada)"), FormItemId(form))>>
     ELSE <<>>)
    \o
    (IF FormSubQty(form) > 0
     THEN <<AlmoxMovement("PERDA", FormSubQty(form), None,
                          FormMotivo(form, "Ajuste (baixa)"), FormItemId(form))>>
     ELSE <<>>)

\* movs2 is movs followed by the rows of the sequence new, and nothing else
Appended(movs, movs2, new) ==
    /\ DOMAIN movs2 = DOMAIN movs \cup
                        {NextId(movs) + k - 1 : k \in 1..Len(new)}
    /\ \A m \in DOMAIN movs : movs2[m] = movs[m]
    /\ \A k \in 1..Len(new) : movs2[NextId(movs) + k - 1] = new[k]

UpdateSucceeded(form, flash) ==
    /\ form.op = "almoxarifado_item_update"
    /\ flash.msg = "Item atualizado."

\* C7 -- an update that succeeds sets the item's quantity to
\* current + add_qty - sub_qty and appends an ENTRADA movement of add_qty if
\* and only if add_qty > 0 and a PERDA movement of sub_qty if and only if
\* sub_qty > 0, each with the submitted reason or the default
\* "Ajuste (entrada)" / "Ajuste (baixa)"; no other movement is added or
\* changed and no other item's quantity changes.
C7_AdjustQuantityAndMovements ==
    [][UpdateSucceeded(request', flashed') =>
          LET id == FormItemId(request') IN
          /\ FormHasItem(request', items)
          /\ FormAddQty(request') >= 0
          /\ FormSubQty(request') >= 0
          /\ DOMAIN items' = DOMAIN items
          /\ items'[id].qty =
                items[id].qty + FormAddQty(request') - FormSubQty(request')
          /\ \A j \in DOMAIN items \ {id} : items'[j] = items[j]
          /\ Appended(movements, movements', ExpectedAdjustments(request'))]_vars

\* item 1, holding one unit, has been adjusted by +2 and -1 with no reason
C7_Witness ==
    /\ UpdateSucceeded(request, flashed)
    /\ request.item_id = "1"
    /\ request.add_qty = "2"
    /\ request.sub_qty = "1"
    /\ items[1].qty = 2
    /\ DOMAIN movements = {1, 2, 3}
    /\ movements[1] = AlmoxMovement("ENTRADA", 1, None, "Cadastro inicial", 1)
    /\ movements[2] = AlmoxMovement("ENTRADA", 2, None, "Ajuste (entrada)", 1)
    /\ movements[3] = AlmoxMovement("PERDA", 1, None, "Ajuste (baixa)", 1)

\* C8 -- a request that fails (its flash is an error) persists nothing: the
\* items, with their names and quantities, and the movement log are exactly
\* as before the request.  This covers the update refused because the
\* quantity would go negative, whose rename was assigned before the check,
\* and the update refused because the new name is another item's name.
C8_FailurePersistsNothing ==
    [][(request' # NoRequest /\ flashed'.category = "error") =>
          /\ items' = items
          /\ movements' = movements]_vars

\* an update that renames item 1 and subtracts more than it holds was refused
C8_Witness ==
    /\ request.op = "almoxarifado_item_update"
    /\ flashed.category = "error"
    /\ flashed.msg = "Não é possível subtrair mais que o estoque atual"
    /\ FormHasItem(request, items)
    /\ items[FormItemId(request)].name # strip(request.name)
    /\ FormAddQty(request) > 0
    /\ movements # <<>>

\* C9 -- in every state reached by the add, movimento, update and delete
\* handlers, whatever integers the forms carry (zero and negative ones
\* included), every item's quantity is >= 0 and every recorded movement's
\* qty is > 0.
C9_NonNegativeStockPositiveMovements ==
    /\ \A i \in DOMAIN items : items[i].qty >= 0
    /\ \A m \in DOMAIN movements : movements[m].qty > 0

\* a movement of zero or fewer units was asked of an item that a debit had
\* emptied
C9_Witness ==
    /\ request.op = "almoxarifado_movimento"
    /\ IsInt(strip(request.qty))
    /\ FormQty(request) <= 0
    /\ flashed.msg = "Quantidade deve ser maior que zero."
    /\ FormHasItem(request, items)
    /\ items[FormItemId(request)].qty = 0
    /\ MovsOf(movements, FormItemId(request), DebitTypes) # {}

NoOrphanMovements ==
    \A m \in DOMAIN movements : movements[m].item_id \in DOMAIN items

\* the delete request names an item that its is to lose: the item and the
\* movements that reference it go, every other row stays as it is
DeleteOutcome(form, flash, its, its2, movs, movs2) ==
    LET id == FormItemId(form) IN
    IF FormHasItem(form, its)
    THEN /\ flash.msg = "Item excluído com sucesso."
         /\ DOMAIN its2 = DOMAIN its \ {id}
         /\ \A j \in DOMAIN its2 : its2[j] = its[j]
         /\ DOMAIN movs2 = {m \in DOMAIN movs : movs[m].item_id # id}
         /\ \A m \in DOMAIN movs2 : movs2[m] = movs[m]
    ELSE /\ flash.category = "error"
         /\ IsInt(strip(form.item_id)) => flash.msg = "Item não encontrado."
         /\ its2 = its
         /\ movs2 = movs

\* C10 -- every movement references an existing item, in every reachable
\* state; a delete of an existing item removes the item and every movement
\* that references it and nothing else; a delete of an id that no item has
\* fails with "Item não encontrado." and changes nothing.
C10_DeleteLeavesNoOrphans ==
    /\ []NoOrphanMovements
    /\ [][request'.op = "almoxarifado_item_delete" =>
             DeleteOutcome(request', flashed', items, items',
                           movements, movements')]_vars

\* item 1 and its movements have been deleted; item 2 and its movement stay
C10_Witness ==
    /\ request.op = "almoxarifado_item_delete"
    /\ request.item_id = "1"
    /\ flashed.msg = "Item excluído com sucesso."
    /\ DOMAIN items = {2}
    /\ DOMAIN movements = {3}
    /\ movements[3].item_id = 2

\* the errors almoxarifado_movimento reports before it loads the item
MovValidationErrors ==
    {"Tipo de movimentação inválido.", "Item inválido.", "Quantidade inválida.",
     "Quantidade deve ser maior que zero.",
     "Informe o motivo (obrigatório para saída/perda/danificado)."}

DebitWithoutMotivo(form) ==
    /\ form.op = "almoxarifado_movimento"
    /\ MovType(form) \in DebitTypes
    /\ strip(form.motivo) = ""

EntradaWithoutMotivo(form, its) ==
    /\ form.op = "almoxarifado_movimento"
    /\ MovType(form) = "ENTRADA"
    /\ strip(form.motivo) = ""
    /\ FormHasItem(form, its)
    /\ IsInt(strip(form.qty))
    /\ FormQty(form) > 0

\* C11 -- a debit (SAIDA or its alias USO, PERDA, DANIFICADO or its alias
\* DANO) submitted with an empty or blank reason is rejected with a
\* validation error, the missing-reason one when item id and quantity are
\* well formed, and changes nothing, whatever the item id and quantity; an
\* ENTRADA with an empty reason on an existing item is accepted and its
\* movement is stored with the reason "Entrada de estoque".
C11_DebitNeedsMotivo ==
    [][/\ DebitWithoutMotivo(request') =>
            /\ flashed'.category = "error"
            /\ flashed'.msg \in MovValidationErrors
            /\ (IsInt(strip(request'.item_id)) /\ IsInt(strip(request'.qty))
                    /\ FormQty(request') > 0)
                  => flashed'.msg =
                        "Informe o motivo (obrigatório para saída/perda/danificado)."
            /\ items' = items
            /\ movements' = movements
       /\ EntradaWithoutMotivo(request', items) =>
            /\ flashed'.category = "success"
            /\ Appended(movements, movements',
                        <<AlmoxMovement("ENTRADA", FormQty(request'),
                              IF strip(request'.local) = "" THEN None
                              ELSE strip(request'.local),
                              "Entrada de estoque", FormItemId(request'))>>)]_vars

\* a "dano" movement with a blank reason on the existing item 1 was refused
C11_Witness ==
    /\ request.op = "almoxarifado_movimento"
    /\ request.type = "dano"
    /\ request.motivo = " "
    /\ FormHasItem(request, items)
    /\ flashed = Flash("error",
                       "Informe o motivo (obrigatório para saída/perda/danificado).",
                       0, "")

\* the normalisation of a raw type: trimmed, upper-cased, aliases mapped
NormalisedType(raw) ==
    LET t == upper(strip(raw))
    IN  IF t = "USO" THEN "SAIDA"
        ELSE IF t = "DANO" THEN "DANIFICADO"
        ELSE t

\* the same, an empty (or absent) type standing for SAIDA
NormalisedTypeOrDefault(raw) ==
    NormalisedType(IF raw = "" THEN "SAIDA" ELSE raw)

CanonicalTypes == {"ENTRADA", "SAIDA", "PERDA", "DANIFICADO"}

StoredTypesCanonical ==
    \A m \in DOMAIN movements : movements[m].type \in CanonicalTypes

\* a movimento step whose form's type normalises to type_: rejected as an
\* invalid type, with no change, exactly when type_ is not canonical; a
\* movement it records carries type_
MovimentoTypeStep(type_) ==
    /\ type_ \notin CanonicalTypes =>
          /\ flashed'.msg = "Tipo de movimentação inválido."
          /\ items' = items
          /\ movements' = movements
    /\ type_ \in CanonicalTypes =>
          flashed'.msg # "Tipo de movimentação inválido."
    /\ flashed'.category = "success" =>
          /\ NextId(movements) \in DOMAIN movements'
          /\ movements'[NextId(movements)].type = type_

DeleteSucceeded(form, flash) ==
    /\ form.op = "almoxarifado_item_delete"
    /\ flash.msg = "Item excluído com sucesso."

\* C13 -- the movement log is append-only: in every step each recorded
\* movement keeps its id, type, qty, location, reason and item reference,
\* unless the step is the successful delete of the item it references; no
\* add, movimento or update request (a rename included) removes or alters a
\* recorded movement.
C13_MovementsAppendOnly ==
    [][\A m \in DOMAIN movements :
          \/ /\ m \in DOMAIN movements'
             /\ movements'[m] = movements[m]
          \/ /\ DeleteSucceeded(request', flashed')
             /\ movements[m].item_id = FormItemId(request')]_vars

\* item 1 has been renamed by an update that moves no stock; the entry and
\* the debit recorded before it are still in the log
C13_Witness ==
    /\ UpdateSucceeded(request, flashed)
    /\ request.item_id = "1"
    /\ request.add_qty = "0"
    /\ request.sub_qty = "0"
    /\ items[1].name = "A"
    /\ DOMAIN movements = {1, 2}
    /\ movements[1] = AlmoxMovement("ENTRADA", 2, None, "Cadastro inicial", 1)
    /\ movements[2] = AlmoxMovement("PERDA", 1, None, "m", 1)

MovSucceeded(form, flash) ==
    /\ form.op = "almoxarifado_movimento"
    /\ flash.msg = "Movimentação registrada com sucesso."

\* C14 -- requests handled one at a time: a movimento request that succeeds
\* on item i appends exactly one movement (the normalised type, the given
\* qty, referencing i) and changes the quantity of i only, by +qty for
\* ENTRADA and by -qty otherwise; the name of i, every other item and every
\* movement recorded before are unchanged.  A movimento request that does
\* not succeed changes nothing: the quantity and the movement are persisted
\* together or not at all.
C14_MovimentoFrame ==
    [][request'.op = "almoxarifado_movimento" =>
          IF MovSucceeded(request', flashed')
          THEN LET i     == FormItemId(request')
                   type_ == NormalisedTypeOrDefault(request'.type)
                   qty   == FormQty(request')
                   new   == NextId(movements)
               IN  /\ FormHasItem(request', items)
                   /\ DOMAIN items' = DOMAIN items
                   /\ items'[i].name = items[i].name
                   /\ items'[i].qty = items[i].qty +
                                         (IF type_ = "ENTRADA" THEN qty ELSE 0 - qty)
                   /\ \A j \in DOMAIN items \ {i} : items'[j] = items[j]
                   /\ DOMAIN movements' = DOMAIN movements \cup {new}
                   /\ \A m \in DOMAIN movements : movements'[m] = movements[m]
                   /\ movements'[new].type = type_
                   /\ movements'[new].qty = qty
                   /\ movements'[new].item_id = i
          ELSE /\ items' = items
               /\ movements' = movements]_vars

\* a PERDA of one unit has been recorded on item 1 while item 2 exists
C14_Witness ==
    /\ MovSucceeded(request, flashed)
    /\ request.type = "PERDA"
    /\ request.item_id = "1"
    /\ DOMAIN items = {1, 2}
    /\ items[1].qty = 0
    /\ items[2].qty = 2
    /\ DOMAIN movements = {1, 2, 3}
    /\ movements[3] = AlmoxMovement("PERDA", 1, None, "m", 1)

\* the answer is to a request for a view of the stock ledger
LedgerAnswered(resp) == resp.bp = "main" /\ resp.endpoint \in LedgerEndpoints

\* the answer is to a POST /login; its credentials, trimmed, are the
\* configured pair
LoginAnswered(resp) == resp.bp = "auth" /\ resp.endpoint = "login_post"

CredentialsOk(resp) ==
    /\ strip(resp.args[1]) = "admin"
    /\ strip(resp.args[2]) = "1234"

\* C15 -- while the session's user_logged flag is not set no step changes
\* the items or the movements or runs a ledger handler (no form is handled,
\* nothing is flashed by one), and a request for a ledger view is answered
\* with a redirect to the login form.  The flag becomes set only in a POST
\* /login whose credentials are the configured pair; a POST /login with
\* other credentials leaves the session as it was; after GET /logout the
\* flag is unset.
C15_AuthGate ==
    [][/\ ~session.user_logged =>
             /\ items' = items
             /\ movements' = movements
             /\ request' = request
       /\ (~session.user_logged /\ LedgerAnswered(response')) =>
             /\ response'.kind = "redirect"
             /\ response'.to = "auth.login"
             /\ flashed' = flashed
       /\ (~session.user_logged /\ session'.user_logged) =>
             /\ LoginAnswered(response')
             /\ CredentialsOk(response')
       /\ (LoginAnswered(response') /\ ~CredentialsOk(response')) =>
             session' = session
       /\ (response'.bp = "auth" /\ response'.endpoint = "logout") =>
             ~session'.user_logged]_vars

\* after a logout, a POST to /almoxarifado/add was sent to the login form
\* and the stock is as the logged-in client left it
C15_Witness ==
    /\ ~session.user_logged
    /\ response = Redirect("main", "almoxarifado_add_item", <<>>, "auth.login")
    /\ request = NoRequest
    /\ DOMAIN items = {1}
    /\ movements # <<>>

\* the sequence L is what a listing with the given limit is to show of the
\* stored movements: min(limit, number of movements) rows, one per movement,
\* each with its columns and the name of its item, newer rows first (later
\* created_at, larger id among equal created_at), and no movement left out
\* is newer than a row shown
ListedOk(L, limit) ==
    LET shown == {L[k].id : k \in 1..Len(L)} IN
    /\ Len(L) = IF Cardinality(DOMAIN movements) < limit
                THEN Cardinality(DOMAIN movements) ELSE limit
    /\ \A k \in 1..Len(L) :
          /\ L[k].id \in DOMAIN movements
          /\ L[k].created_at = stamps[L[k].id]
          /\ L[k].type = movements[L[k].id].type
          /\ L[k].qty = movements[L[k].id].qty
          /\ L[k].local = movements[L[k].id].local
          /\ L[k].motivo = movements[L[k].id].motivo
          /\ L[k].item_id = movements[L[k].id].item_id
          /\ L[k].item_id \in DOMAIN items
          /\ L[k].item_name = items[L[k].item_id].name
    /\ \A k \in 1..(Len(L) - 1) :
          \/ L[k].created_at > L[k + 1].created_at
          \/ L[k].created_at = L[k + 1].created_at /\ L[k].id > L[k + 1].id
    /\ \A m \in DOMAIN movements \ shown : \A k \in 1..Len(L) :
          \/ L[k].created_at > stamps[m]
          \/ L[k].created_at = stamps[m] /\ L[k].id > m

\* C16 -- the movement listing holds min(limit, number of movements) rows,
\* ordered by creation time descending with ties broken by id descending,
\* each paired with the name of its owning item, and they are exactly the
\* most recent movements: for the page as rendered (limit 200) and for the
\* query at every limit from 0 to one more than the log can hold.
C16_ListingMostRecentFirst ==
    /\ AtPage => ListedOk(listed, 200)
    /\ \A limit \in 0..(MaxMovs + 1) :
          ListedOk(MovementsQuery(items, movements, stamps, limit), limit)

\* the page shows three movements: the two newest were created at the same
\* clock reading and come in descending id, the oldest comes last; a
\* listing limited to two rows would leave it out
C16_Witness ==
    /\ AtPage
    /\ Len(listed) = 3
    /\ listed[1].created_at = listed[2].created_at
    /\ listed[1].id > listed[2].id
    /\ listed[2].created_at > listed[3].created_at
    /\ listed[3].item_name = "a"
    /\ Len(MovementsQuery(items, movements, stamps, 2)) = 2

\* ---------------------------------------------------------------- C17
\* the scanner lookup has been answered
ApiAnswered(resp) == resp.bp = "main" /\ resp.endpoint = "api_equipment_by_barcode"

\* C17 -- the scanner lookup api_equipment_by_barcode does not require
\* login: a request made without the user_logged flag reaches the view and
\* is answered with its lookup result (found, not_found or missing_code),
\* never with a redirect to the login form.
C17_ScannerLookupNeedsNoLogin ==
    [][(~session.user_logged /\ ApiAnswered(response'))
        => /\ response'.kind = "json"
           /\ response'.to = api_equipment_by_barcode(equipments, response'.args[1])]_vars

\* ---------------------------------------------------------------- C18
\* C18 -- sector names are unique per location ignoring letter case: no two
\* distinct sectors of one location have names that are equal once
\* lower-cased ("Setor A" = "setor a").
C18_SectorNamesUniqueIgnoringCase ==
    \A i, j \in DOMAIN sectors :
        (i # j /\ sectors[i].location_id = sectors[j].location_id)
            => PyLower(sectors[i].name) # PyLower(sectors[j].name)

\* ---------------------------------------------------------------- C19
\* C19 -- invoice attachment consistency: every equipment row whose
\* invoice_file is not null names a file that exists in the upload folder,
\* whatever creates, updates (also those that fail) and deletes came before.
C19_InvoiceFilesExist ==
    \A e \in DOMAIN equipments :
        equipments[e].invoice_file # None => equipments[e].invoice_file \in files

====
